---- MODULE Spec2Model ----
(***************************************************************************)
(* Stereo disparity by loopy belief propagation (TP5.py).                  *)
(*                                                                         *)
(* Arrays are records [shape, at]: shape is the numpy shape and at maps    *)
(* every 0-based index tuple to its value.                                 *)
(*                                                                         *)
(* Arithmetic is exact.  The data cost carries the factor 1/3 of line 17,  *)
(* so costs and energies are kept as integer numerators over CostDen = 3.  *)
(* np.mean in normalize_msg divides by the label depth; messages and       *)
(* beliefs are kept as integer numerators over CostDen * den, and each     *)
(* normalisation multiplies den by the depth.                              *)
(***************************************************************************)
EXTENDS Integers, Sequences, FiniteSets, TLC

\* ---------------------------------------------------------------- bounds
MaxCells == 2
MaxGridCells == 4
MaxDepth == 2
MaxEntries == 2
MaxLabels == 3
MaxIter == 2

\* --------------------------------------------------- program constants
CostDen == 3
ScriptNumDispValues == 16
DefaultTau == 15

\* ------------------------------------------------------- input families
PixelValues == {0, 60}
LambdaValues == {0, 10}
TauValues == {-1, 0, DefaultTau}
LabelArgs == (-1)..MaxLabels
IterArgs == (-1)..MaxIter
\* the values of the module-level num_disp_values: the script's 16 and small
\* values that fall below, on and above the label depths explored here
GlobalValues == (1..MaxLabels) \cup {ScriptNumDispValues}
Shapes2 == {s \in (1..MaxCells) \X (1..MaxCells) : s[1] * s[2] <= MaxCells}
GridShapes == {s \in (1..MaxGridCells) \X (1..MaxGridCells) : s[1] * s[2] <= MaxGridCells}
FieldShapes ==
    {s \in (1..MaxEntries) \X (1..MaxEntries) \X (1..MaxEntries) :
        s[1] * s[2] * s[3] <= MaxEntries}
CostValues == {0, 3}
FieldValues == {0, 1}

\* ------------------------------------------------------ numpy primitives
Range0(n) == 0..(n - 1)

Idx3(h, w, d) == Range0(h) \X Range0(w) \X Range0(d)

Idx2(h, w) == Range0(h) \X Range0(w)

zeros(h, w, d) == [shape |-> <<h, w, d>>, at |-> [i \in Idx3(h, w, d) |-> 0]]

Abs(v) == IF v < 0 THEN -v ELSE v

Min2(a, b) == IF a <= b THEN a ELSE b

MinOf(S) == CHOOSE m \in S : \A v \in S : m <= v

RECURSIVE SumOver(_, _)
SumOver(f, S) ==
    IF S = {} THEN 0
    ELSE LET i == CHOOSE j \in S : TRUE
         IN  f[i] + SumOver(f, S \ {i})

\* a[i] for a python index i on an axis of length n: indices -n..-1 count
\* from the end, anything else outside 0..n-1 raises IndexError
InBounds(i, n) == -n <= i /\ i < n

PyIndex(i, n) == IF i < 0 THEN i + n ELSE i

\* np.roll(a, shift, axis) reads position (i - shift) mod n into position i
RollFrom(i, shift, n) == (i - shift) % n

Plus(a, b) == [shape |-> a.shape, at |-> [i \in DOMAIN a.at |-> a.at[i] + b.at[i]]]

\* an array of thirds expressed over the denominator CostDen * k
Scale(a, k) == [shape |-> a.shape, at |-> [i \in DOMAIN a.at |-> k * a.at[i]]]

\* ------------------------------------------------------ compute_data_cost
L1Norm(I1, I2, y, x, x2) ==
    LET c == I1.shape[3]
        diff == [k \in Range0(c) |-> Abs(I1.at[<<y, x, k>>] - I2.at[<<y, x2, k>>])]
    IN  SumOver(diff, Range0(c))

\* "ValueError": np.zeros with a negative dimension (line 12);
\* "IndexError": I2[y, x-l] with x-l < -w (line 17)
compute_data_cost_error(I1, I2, num_disp, tau) ==
    LET h == I1.shape[1]
        w == I1.shape[2]
    IN  IF num_disp < 0 THEN "ValueError"
        ELSE IF \E x \in Range0(w), l \in Range0(num_disp) : ~InBounds(x - l, w)
             THEN "IndexError"
             ELSE "none"

compute_data_cost(I1, I2, num_disp, tau) ==
    LET h == I1.shape[1]
        w == I1.shape[2]
    IN  [shape |-> <<h, w, num_disp>>,
         at |-> [i \in Idx3(h, w, num_disp) |->
                   Min2(L1Norm(I1, I2, i[1], i[2], PyIndex(i[2] - i[3], w)),
                        CostDen * tau)]]

\* ---------------------------------------------------------- compute_energy
DataTerm(dataCost, disp) ==
    LET h == dataCost.shape[1]
        w == dataCost.shape[2]
        d == dataCost.shape[3]
        costs == [p \in Idx2(h, w) |->
                    dataCost.at[<<p[1], p[2], PyIndex(disp.at[p], d)>>]]
    IN  SumOver(costs, Idx2(h, w))

pottsU(disp, h, w) ==
    [p \in Idx2(h, w) |->
        IF p[1] = 0 THEN FALSE
        ELSE disp.at[p] # disp.at[<<RollFrom(p[1], -1, h), p[2]>>]]

pottsD(disp, h, w) ==
    [p \in Idx2(h, w) |->
        IF p[1] = h - 1 THEN FALSE
        ELSE disp.at[p] # disp.at[<<RollFrom(p[1], 1, h), p[2]>>]]

pottsL(disp, h, w) ==
    [p \in Idx2(h, w) |->
        IF p[2] = 0 THEN FALSE
        ELSE disp.at[p] # disp.at[<<p[1], RollFrom(p[2], -1, w)>>]]

pottsR(disp, h, w) ==
    [p \in Idx2(h, w) |->
        IF p[2] = w - 1 THEN FALSE
        ELSE disp.at[p] # disp.at[<<p[1], RollFrom(p[2], 1, w)>>]]

\* "+" on numpy boolean arrays is the logical or; np.sum counts the True cells
potts(disp, h, w) ==
    [p \in Idx2(h, w) |->
        pottsU(disp, h, w)[p] \/ pottsD(disp, h, w)[p]
            \/ pottsL(disp, h, w)[p] \/ pottsR(disp, h, w)[p]]

\* the energy as a numerator over CostDen
compute_energy(dataCost, disp, lam) ==
    LET h == dataCost.shape[1]
        w == dataCost.shape[2]
    IN  DataTerm(dataCost, disp)
          + CostDen * lam * Cardinality({p \in Idx2(h, w) : potts(disp, h, w)[p]})

\* -------------------------------------------------------------- update_msg
incMsgU(msgDPrev, h, w, d) ==
    [i \in Idx3(h, w, d) |->
        IF i[1] = h - 1 THEN 0
        ELSE msgDPrev.at[<<RollFrom(i[1], -1, h), i[2], i[3]>>]]

incMsgD(msgUPrev, h, w, d) ==
    [i \in Idx3(h, w, d) |->
        IF i[1] = 0 THEN 0
        ELSE msgUPrev.at[<<RollFrom(i[1], 1, h), i[2], i[3]>>]]

incMsgL(msgRPrev, h, w, d) ==
    [i \in Idx3(h, w, d) |->
        IF i[2] = w - 1 THEN 0
        ELSE msgRPrev.at[<<i[1], RollFrom(i[2], -1, w), i[3]>>]]

incMsgR(msgLPrev, h, w, d) ==
    [i \in Idx3(h, w, d) |->
        IF i[2] = 0 THEN 0
        ELSE msgLPrev.at[<<i[1], RollFrom(i[2], 1, w), i[3]>>]]

\* np.amin(A, axis=2) at pixel (y, x)
amin(A, y, x, d) == MinOf({A[<<y, x, l>>] : l \in Range0(d)})

\* lines 95-99: only the labels below loopBound are written, the others keep
\* the 0 of np.zeros
MsgOut(A, lam, h, w, d, loopBound) ==
    [shape |-> <<h, w, d>>,
     at |-> [i \in Idx3(h, w, d) |->
               IF i[3] < loopBound
               THEN Min2(A[i], lam + amin(A, i[1], i[2], d))
               ELSE 0]]

\* "ValueError": np.amin over an empty label axis (line 90);
\* "IndexError": msgU[:, :, l] with l beyond the depth (line 96)
update_msg_error(dataCost, loopBound) ==
    IF dataCost.shape[3] = 0 THEN "ValueError"
    ELSE IF loopBound > dataCost.shape[3] THEN "IndexError"
         ELSE "none"

\* loopBound is the module-level num_disp_values that line 95 reads
update_msg(msgUPrev, msgDPrev, msgLPrev, msgRPrev, dataCost, lam, loopBound) ==
    LET h == dataCost.shape[1]
        w == dataCost.shape[2]
        d == dataCost.shape[3]
        iU == incMsgU(msgDPrev, h, w, d)
        iD == incMsgD(msgUPrev, h, w, d)
        iL == incMsgL(msgRPrev, h, w, d)
        iR == incMsgR(msgLPrev, h, w, d)
        AU == [i \in Idx3(h, w, d) |-> dataCost.at[i] + iD[i] + iL[i] + iR[i]]
        AD == [i \in Idx3(h, w, d) |-> dataCost.at[i] + iU[i] + iL[i] + iR[i]]
        AL == [i \in Idx3(h, w, d) |-> dataCost.at[i] + iU[i] + iD[i] + iR[i]]
        AR == [i \in Idx3(h, w, d) |-> dataCost.at[i] + iU[i] + iD[i] + iL[i]]
    IN  [U |-> MsgOut(AU, lam, h, w, d, loopBound),
         D |-> MsgOut(AD, lam, h, w, d, loopBound),
         L |-> MsgOut(AL, lam, h, w, d, loopBound),
         R |-> MsgOut(AR, lam, h, w, d, loopBound)]

\* ----------------------------------------------------------- normalize_msg
\* numerator of np.mean(msg, axis=2) at (y, x) over the denominator d
avg(msg, y, x) ==
    LET d == msg.shape[3]
        row == [l \in Range0(d) |-> msg.at[<<y, x, l>>]]
    IN  SumOver(row, Range0(d))

\* msg -= avg[:, :, np.newaxis], as numerators over d times the old denominator
SubtractAvg(msg, from) ==
    [shape |-> msg.shape,
     at |-> [i \in DOMAIN msg.at |-> msg.shape[3] * msg.at[i] - avg(from, i[1], i[2])]]

\* normalize_msg with avg not recomputed before msgD is re-centred
normalize_msg_stale_avg(mU, mD, mL, mR) ==
    [U |-> SubtractAvg(mU, mU), D |-> SubtractAvg(mD, mU),
     L |-> SubtractAvg(mL, mL), R |-> SubtractAvg(mR, mR)]

normalize_msg(mU, mD, mL, mR) ==
    [U |-> SubtractAvg(mU, mU), D |-> SubtractAvg(mD, mD),
     L |-> SubtractAvg(mL, mL), R |-> SubtractAvg(mR, mR)]

\* ---------------------------------------------------------- compute_belief
compute_belief(dataCost, mU, mD, mL, mR) ==
    Plus(Plus(Plus(Plus(dataCost, mU), mD), mL), mR)

\* ------------------------------------------------------------ MAP_labeling
\* np.argmin(beliefs, axis=2): the first label reaching the minimum
MAP_labeling(b) ==
    LET h == b.shape[1]
        w == b.shape[2]
        d == b.shape[3]
    IN  [shape |-> <<h, w>>,
         at |-> [p \in Idx2(h, w) |->
                   MinOf({l \in Range0(d) :
                            \A k \in Range0(d) : b.at[<<p[1], p[2], l>>] <= b.at[<<p[1], p[2], k>>]})]]

\* ------------------------------------------------------------------- state
\* num_disp_values is the module-level global (line 165) that update_msg
\* reads; numLabels is stereo_bp's parameter of the same name.
VARIABLES pc, err, num_disp_values, I1, I2, numLabels, Lambda, Tau,
          num_iterations, dataCost, energy, msgU, msgD, msgL, msgR, prev, den,
          beliefs, disparity, iter

vars == <<pc, err, num_disp_values, I1, I2, numLabels, Lambda, Tau,
          num_iterations, dataCost, energy, msgU, msgD, msgL, msgR, prev, den,
          beliefs, disparity, iter>>

\* a name not bound yet
NoArray3 == [shape |-> <<0, 0, 0>>, at |-> [i \in {} |-> 0]]

NoArray2 == [shape |-> <<0, 0>>, at |-> [i \in {} |-> 0]]

NoPrev == [U |-> NoArray3, D |-> NoArray3, L |-> NoArray3, R |-> NoArray3]

Arrays3(h, w, d, V) ==
    {[shape |-> <<h, w, d>>, at |-> f] : f \in [Idx3(h, w, d) -> V]}

Arrays2(h, w, V) ==
    {[shape |-> <<h, w>>, at |-> f] : f \in [Idx2(h, w) -> V]}

\* ---------------------------------------------------------------- stereo_bp
\* the call stereo_bp(I1, I2, numLabels, Lambda, Tau, num_iterations) on two
\* equal-shaped single-channel images
Init ==
    /\ pc = "start"
    /\ err = "none"
    /\ num_disp_values \in GlobalValues
    /\ \E s \in Shapes2 :
          /\ I1 \in Arrays3(s[1], s[2], 1, PixelValues)
          /\ I2 \in Arrays3(s[1], s[2], 1, PixelValues)
    /\ numLabels \in LabelArgs
    /\ Lambda \in LambdaValues
    /\ Tau \in TauValues
    /\ num_iterations \in IterArgs
    /\ dataCost = NoArray3
    /\ energy = <<>>
    /\ msgU = NoArray3 /\ msgD = NoArray3 /\ msgL = NoArray3 /\ msgR = NoArray3
    /\ prev = NoPrev
    /\ den = 1
    /\ beliefs = NoArray3
    /\ disparity = NoArray2
    /\ iter = 0

Raise(e) ==
    /\ pc' = "Error"
    /\ err' = e

\* lines 131-138
Start ==
    /\ pc = "start"
    /\ LET e == compute_data_cost_error(I1, I2, numLabels, Tau)
           h == I1.shape[1]
           w == I1.shape[2]
       IN  IF e # "none"
           THEN /\ Raise(e)
                /\ UNCHANGED <<dataCost, energy, msgU, msgD, msgL, msgR>>
           ELSE /\ dataCost' = compute_data_cost(I1, I2, numLabels, Tau)
                /\ IF num_iterations < 0
                   THEN /\ Raise("ValueError")
                        /\ UNCHANGED <<energy, msgU, msgD, msgL, msgR>>
                   ELSE /\ energy' = [k \in 1..num_iterations |-> 0]
                        /\ msgU' = zeros(h, w, numLabels)
                        /\ msgD' = zeros(h, w, numLabels)
                        /\ msgL' = zeros(h, w, numLabels)
                        /\ msgR' = zeros(h, w, numLabels)
                        /\ pc' = IF num_iterations > 0 THEN "update_msg" ELSE "return"
                        /\ err' = err
    /\ UNCHANGED <<num_disp_values, I1, I2, numLabels, Lambda, Tau,
                   num_iterations, prev, den, beliefs, disparity, iter>>

\* lines 141-142
UpdateMsg ==
    /\ pc = "update_msg"
    /\ LET e == update_msg_error(dataCost, num_disp_values)
           m == update_msg(msgU, msgD, msgL, msgR, Scale(dataCost, den),
                           CostDen * den * Lambda, num_disp_values)
       IN  IF e # "none"
           THEN /\ Raise(e)
                /\ UNCHANGED <<msgU, msgD, msgL, msgR, prev>>
           ELSE /\ prev' = [U |-> msgU, D |-> msgD, L |-> msgL, R |-> msgR]
                /\ msgU' = m.U /\ msgD' = m.D /\ msgL' = m.L /\ msgR' = m.R
                /\ pc' = "normalize_msg"
                /\ err' = err
    /\ UNCHANGED <<num_disp_values, I1, I2, numLabels, Lambda, Tau,
                   num_iterations, dataCost, energy, den, beliefs, disparity, iter>>

\* line 143
NormalizeMsg ==
    /\ pc = "normalize_msg"
    /\ LET m == normalize_msg(msgU, msgD, msgL, msgR)
       IN  /\ msgU' = m.U /\ msgD' = m.D /\ msgL' = m.L /\ msgR' = m.R
    /\ den' = den * msgU.shape[3]
    /\ pc' = "compute_belief"
    /\ UNCHANGED <<err, num_disp_values, I1, I2, numLabels, Lambda, Tau,
                   num_iterations, dataCost, energy, prev, beliefs, disparity, iter>>

\* line 145
ComputeBelief ==
    /\ pc = "compute_belief"
    /\ beliefs' = compute_belief(Scale(dataCost, den), msgU, msgD, msgL, msgR)
    /\ pc' = "MAP_labeling"
    /\ UNCHANGED <<err, num_disp_values, I1, I2, numLabels, Lambda, Tau,
                   num_iterations, dataCost, energy, msgU, msgD, msgL, msgR,
                   prev, den, disparity, iter>>

\* line 146
MapLabeling ==
    /\ pc = "MAP_labeling"
    /\ disparity' = MAP_labeling(beliefs)
    /\ pc' = "compute_energy"
    /\ UNCHANGED <<err, num_disp_values, I1, I2, numLabels, Lambda, Tau,
                   num_iterations, dataCost, energy, msgU, msgD, msgL, msgR,
                   prev, den, beliefs, iter>>

\* line 147 and the loop test of line 140
ComputeEnergy ==
    /\ pc = "compute_energy"
    /\ energy' = [energy EXCEPT ![iter + 1] = compute_energy(dataCost, disparity, Lambda)]
    /\ iter' = iter + 1
    /\ pc' = IF iter + 1 < num_iterations THEN "update_msg" ELSE "return"
    /\ UNCHANGED <<err, num_disp_values, I1, I2, numLabels, Lambda, Tau,
                   num_iterations, dataCost, msgU, msgD, msgL, msgR, prev, den,
                   beliefs, disparity>>

\* line 148: disparity is unbound when the loop body never ran
Return ==
    /\ pc = "return"
    /\ IF disparity = NoArray2
       THEN Raise("UnboundLocalError")
       ELSE pc' = "Done" /\ err' = err
    /\ UNCHANGED <<num_disp_values, I1, I2, numLabels, Lambda, Tau,
                   num_iterations, dataCost, energy, msgU, msgD, msgL, msgR,
                   prev, den, beliefs, disparity, iter>>

Next ==
    \/ Start
    \/ UpdateMsg
    \/ NormalizeMsg
    \/ ComputeBelief
    \/ MapLabeling
    \/ ComputeEnergy
    \/ Return

Spec == Init /\ [][Next]_vars

\* ------------------------------------------- compute_energy called alone
\* compute_energy(dataCost, disparity, Lambda) on any cost volume and any
\* labelling of it
InitEnergy ==
    /\ pc = "compute_energy"
    /\ err = "none"
    /\ \E s \in GridShapes, d \in 1..MaxDepth :
          /\ dataCost \in Arrays3(s[1], s[2], d, CostValues)
          /\ disparity \in Arrays2(s[1], s[2], Range0(d))
          /\ numLabels = d
          /\ num_disp_values = d
    /\ Lambda \in LambdaValues
    /\ Tau = DefaultTau
    /\ I1 = NoArray3 /\ I2 = NoArray3
    /\ num_iterations = 1
    /\ energy = <<0>>
    /\ msgU = NoArray3 /\ msgD = NoArray3 /\ msgL = NoArray3 /\ msgR = NoArray3
    /\ prev = NoPrev
    /\ den = 1
    /\ beliefs = NoArray3
    /\ iter = 0

SpecEnergy == InitEnergy /\ [][ComputeEnergy]_vars

\* ------------------------------ update_msg and compute_belief called alone
\* update_msg(msgU, msgD, msgL, msgR, dataCost, Lambda) and
\* compute_belief(dataCost, msgU, msgD, msgL, msgR) on any four fields of the
\* cost volume's shape
InitFields ==
    /\ pc \in {"update_msg", "compute_belief"}
    /\ err = "none"
    /\ num_disp_values \in GlobalValues
    /\ \E s \in FieldShapes :
          /\ dataCost \in Arrays3(s[1], s[2], s[3], CostValues)
          /\ msgU \in Arrays3(s[1], s[2], s[3], FieldValues)
          /\ msgD \in Arrays3(s[1], s[2], s[3], FieldValues)
          /\ msgL \in Arrays3(s[1], s[2], s[3], FieldValues)
          /\ msgR \in Arrays3(s[1], s[2], s[3], FieldValues)
          /\ numLabels = s[3]
    /\ Lambda \in LambdaValues
    /\ Tau = DefaultTau
    /\ I1 = NoArray3 /\ I2 = NoArray3
    /\ num_iterations = 1
    /\ energy = <<0>>
    /\ prev = NoPrev
    /\ den = 1
    /\ beliefs = NoArray3
    /\ disparity = NoArray2
    /\ iter = 0

NextFields ==
    \/ UpdateMsg
    \/ ComputeBelief

SpecFields == InitFields /\ [][NextFields]_vars

\* ================================================================== claims
ValidInputs ==
    /\ numLabels >= 1
    /\ Lambda >= 0
    /\ Tau >= 0
    /\ num_iterations >= 1

Adjacent(p, q) == Abs(p[1] - q[1]) + Abs(p[2] - q[2]) = 1

\* the (pixel, direction) combinations whose in-grid neighbour differs
DifferingNeighbours(disp) ==
    LET P == Idx2(disp.shape[1], disp.shape[2])
    IN  {pq \in P \X P : Adjacent(pq[1], pq[2]) /\ disp.at[pq[1]] # disp.at[pq[2]]}

EnergyOfLabelling(cost, disp, lam) ==
    LET P == Idx2(disp.shape[1], disp.shape[2])
        picked == [p \in P |-> cost.at[<<p[1], p[2], disp.at[p]>>]]
    IN  SumOver(picked, P) + CostDen * lam * Cardinality(DifferingNeighbours(disp))

\* C1: compute_energy returns the summed cost of the chosen labels plus
\* Lambda times the number of (pixel, direction) combinations whose in-grid
\* 4-neighbour carries a different label; pairs across the image edge do not
\* count.
C1_EnergyCountsInGridPairs ==
    pc = "return" => energy[1] = EnergyOfLabelling(dataCost, disparity, Lambda)

\* the cost volume with the second image read at column (x - l) mod W
WrappedCost(A, B, L, tau) ==
    LET h == A.shape[1]
        w == A.shape[2]
    IN  [shape |-> <<h, w, L>>,
         at |-> [i \in Idx3(h, w, L) |->
                   Min2(Abs(A.at[<<i[1], i[2], 0>>]
                              - B.at[<<i[1], (i[2] - i[3]) % w, 0>>]),
                        CostDen * tau)]]

\* C2: for every positive numLabels and every Tau >= 0 compute_data_cost
\* completes and yields min(|I1[y][x] - I2[y][(x - l) mod W]| / 3, Tau) for
\* every y, x and l, also when x - l < -W.
C2_DataCostWrapsModW ==
    (pc # "start" /\ numLabels >= 1 /\ Tau >= 0)
        => dataCost = WrappedCost(I1, I2, numLabels, Tau)

LabelsInRange ==
    \A p \in DOMAIN disparity.at : disparity.at[p] \in 0..(numLabels - 1)

\* C3: on valid inputs stereo_bp returns a disparity map, and every label of
\* every iteration's map and of the returned map lies in 0..numLabels-1.
C3_ReturnsLabelsInRange ==
    ValidInputs => (pc # "Error" /\ LabelsInRange)

\* C4: for num_iterations >= 1 stereo_bp runs the round exactly
\* num_iterations times with no early exit and reaches Done, where the trace
\* has num_iterations entries and the last one is the energy of the returned
\* map.
C4_RunsAllRoundsToDone ==
    ValidInputs =>
        /\ pc # "Error"
        /\ iter <= num_iterations
        /\ pc = "return" => iter = num_iterations
        /\ pc = "Done" =>
              /\ iter = num_iterations
              /\ Len(energy) = num_iterations
              /\ energy[num_iterations] = compute_energy(dataCost, disparity, Lambda)

AllZero(a) == \A i \in DOMAIN a.at : a.at[i] = 0

C6_InvalidParametersFailFast ==
    (numLabels <= 0 \/ num_iterations <= 0 \/ Tau < 0) =>
        /\ pc \in {"start", "Error"}
        /\ dataCost = NoArray3
        /\ iter = 0

\* C7: a 1x2 pair with numLabels = 2, I1[0][1] = I2[0][0] and
\* cost[0][1][0] - cost[0][1][1] > Lambda ends with the disparity map [[0, 1]].
C7_MatchingPixelGetsLabelOne ==
    (/\ ValidInputs
     /\ I1.shape = <<1, 2, 1>>
     /\ numLabels = 2
     /\ I1.at[<<0, 1, 0>>] = I2.at[<<0, 0, 0>>]
     /\ LET c == compute_data_cost(I1, I2, 2, Tau)
        IN  c.at[<<0, 1, 0>>] - c.at[<<0, 1, 1>>] > CostDen * Lambda
     /\ pc \in {"Done", "Error"})
        => (pc = "Done" /\ disparity.at = (<<0, 0>> :> 0 @@ <<0, 1>> :> 1))

\* the current fields have been through normalize_msg
Normalized ==
    \/ pc \in {"compute_belief", "MAP_labeling", "compute_energy"}
    \/ pc \in {"update_msg", "return", "Done"} /\ iter >= 1

LabelSumZero(msg) ==
    \A y \in Range0(msg.shape[1]), x \in Range0(msg.shape[2]) : avg(msg, y, x) = 0

\* C8: after normalize_msg, in every iteration, the sum over all labels of
\* every pixel's message vector is zero in each of the four fields.
C8_NormalizedMessagesSumToZero ==
    Normalized =>
        (LabelSumZero(msgU) /\ LabelSumZero(msgD) /\ LabelSumZero(msgL) /\ LabelSumZero(msgR))

\* a second round has normalised messages that differ between the labels
C8_Witness ==
    /\ pc = "compute_belief"
    /\ iter = 1
    /\ I1.shape = <<2, 1, 1>>
    /\ numLabels = 2
    /\ msgU.at[<<0, 0, 0>>] # msgD.at[<<0, 0, 0>>]
    /\ msgU.at[<<0, 0, 0>>] # 0

\* what pixel p receives from its neighbour in direction dir: that
\* neighbour's message of the opposite direction, 0 across the image edge
Received(f, dir, i, h, w) ==
    LET q == CASE dir = "U" -> <<i[1] + 1, i[2], i[3]>>
               [] dir = "D" -> <<i[1] - 1, i[2], i[3]>>
               [] dir = "L" -> <<i[1], i[2] + 1, i[3]>>
               [] dir = "R" -> <<i[1], i[2] - 1, i[3]>>
        opp == CASE dir = "U" -> f.D [] dir = "D" -> f.U
                 [] dir = "L" -> f.R [] dir = "R" -> f.L
    IN  IF q[1] \in Range0(h) /\ q[2] \in Range0(w) THEN opp.at[q] ELSE 0

Dirs == {"U", "D", "L", "R"}

SentSum(f, cost, dir, i, h, w) ==
    LET others == Dirs \ {dir}
        r == [o \in others |-> Received(f, o, i, h, w)]
    IN  cost.at[i] + SumOver(r, others)

SentMessage(f, cost, lam, dir) ==
    LET h == cost.shape[1]
        w == cost.shape[2]
        d == cost.shape[3]
    IN  [shape |-> cost.shape,
         at |-> [i \in Idx3(h, w, d) |->
                   Min2(SentSum(f, cost, dir, i, h, w),
                        lam + MinOf({SentSum(f, cost, dir, <<i[1], i[2], l>>, h, w) :
                                       l \in Range0(d)}))]]

\* C9: update_msg returns, for every direction, pixel and label below the
\* depth of the cost volume, min(A[l], Lambda + min A), A being the cost plus
\* the previous messages received from the three other neighbours (0 across
\* an edge), whatever the rest of the program state is.
C9_UpdateMsgFollowsCostDepth ==
    pc \in {"normalize_msg", "Error"} =>
        /\ pc = "normalize_msg"
        /\ msgU = SentMessage(prev, dataCost, CostDen * Lambda, "U")
        /\ msgD = SentMessage(prev, dataCost, CostDen * Lambda, "D")
        /\ msgL = SentMessage(prev, dataCost, CostDen * Lambda, "L")
        /\ msgR = SentMessage(prev, dataCost, CostDen * Lambda, "R")

\* C10: compute_belief adds to the data cost of p the messages p receives
\* from its existing neighbours, not the field values stored at p.
C10_BeliefSumsReceivedMessages ==
    pc = "MAP_labeling" =>
        LET f == [U |-> msgU, D |-> msgD, L |-> msgL, R |-> msgR]
            h == dataCost.shape[1]
            w == dataCost.shape[2]
            r(i) == [o \in Dirs |-> Received(f, o, i, h, w)]
        IN  \A i \in DOMAIN dataCost.at :
                beliefs.at[i] = dataCost.at[i] + SumOver(r(i), Dirs)

====
